---- MODULE Spec2Model ----
(***************************************************************************)
(* Model of InterpreterService (interpreterService.ts): the structure      *)
(* inference of identifyStructures / linesOverlap and the narrative of     *)
(* generateAutoCADInterpretation, interpretFile with the two stub decoders *)
(* it dispatches to, and the App / FileUploader / FileInterpreter          *)
(* components (App.tsx, FileUploader.tsx, FileInterpreter.tsx) that call   *)
(* interpretFile from a React effect.                                      *)
(*                                                                         *)
(* Numbers.  The source computes on JavaScript numbers.  The model uses    *)
(* exact fixed-point integers: one model unit is 1/40 of a drawing unit,   *)
(* so 0.1 = 4, 0.5 = 20, 1 = 40, 3 = 120.  Input coordinates are even, so  *)
(* that room.height/2 and room.width/2 are exact.  Areas (width * height)  *)
(* are in units of 1/1600.  Binary rounding of the source's doubles is not *)
(* modelled.                                                               *)
(***************************************************************************)
EXTENDS Integers, Sequences, FiniteSets, TLC

VARIABLES
  elements,         \* the AutoCADElement[] argument
  pc,               \* "input", "identified", "interpreted", "rooms", "derived",
                    \* "service" when interpretFile is the entry, "app"
                    \* when the App component is
  threw,            \* TRUE when the call ended with a TypeError
  horizontalLines,  \* identifyStructures' local horizontalLines
  verticalLines,    \* identifyStructures' local verticalLines
  structures,       \* the StructureSet {rooms, corridors}
  lineCounts,       \* lengths of generateAutoCADInterpretation's two line arrays
  interpretation,   \* the returned string, as its sequence of appended pieces
  file,             \* the File given to interpretFile: its name and size
  promise,          \* the promise of interpretFile: "none" before the call,
                    \* "pending", "fulfilled" or "rejected"
  result,           \* the value the promise is fulfilled with
  app               \* the App component: its three states (file,
                    \* interpretedData, isLoading), what React has scheduled
                    \* for it, and the interpretFile promises not yet settled

vars == <<elements, pc, threw, horizontalLines, verticalLines, structures,
          lineCounts, interpretation, file, promise, result, app>>

(***************************************************************************)
(* Bounds of the model                                                     *)
(***************************************************************************)
MaxElems == 6
MaxRooms == 2
MaxNotes == 2
MaxUploads == 2
MaxPending == 2

BSeq(S, n) == UNION {[1..k -> S] : k \in 0..n}

\* the sequences of at most n distinct members of S
DistinctSeqs(S, n) ==
  UNION {{s \in [1..k -> S] : \A i, j \in 1..k : s[i] = s[j] => i = j} : k \in 0..n}

Abs(a) == IF a < 0 THEN -a ELSE a
Min(a, b) == IF a < b THEN a ELSE b
Max(a, b) == IF a > b THEN a ELSE b

(***************************************************************************)
(* Thresholds of the source, in model units (1/40)                         *)
(***************************************************************************)
AxisTolerance == 4
OverlapTolerance == 20
DuplicateTolerance == 20
MinSeparationLoose == DuplicateTolerance
MinSeparation == 40
CorridorMinor == 120

(***************************************************************************)
(* Elements                                                                *)
(***************************************************************************)
Line(x1, y1, x2, y2, layer) ==
  [type |-> "line", coordinates |-> <<<<x1, y1>>, <<x2, y2>>>>, layer |-> layer]

Circle(cx, cy, r, layer) ==
  [type |-> "circle", center |-> <<cx, cy>>, radius |-> r, layer |-> layer]

Text(content, px, py, layer) ==
  [type |-> "text", content |-> content, position |-> <<px, py>>, layer |-> layer]

\* elements.filter(e => e.type === 'line')
LineElementsUnfiltered(elems) == elems
LineElements(elems) == SelectSeq(elems, LAMBDA e : e.type = "line")

\* const [[x1, y1], [x2, y2]] = line.coordinates  throws a TypeError when the
\* element has no coordinates or fewer than two points
DestructureThrows(line) ==
  \/ "coordinates" \notin DOMAIN line
  \/ Len(line.coordinates) < 2

X1(line) == line.coordinates[1][1]
Y1(line) == line.coordinates[1][2]
X2(line) == line.coordinates[2][1]
Y2(line) == line.coordinates[2][2]

\* Math.abs(y2 - y1) < 0.1
IsHorizontal(line) == Abs(Y2(line) - Y1(line)) < AxisTolerance
\* else if (Math.abs(x2 - x1) < 0.1)
IsVerticalElse(line) == ~IsHorizontal(line)
IsVertical(line) ==
  ~IsHorizontal(line) /\ Abs(X2(line) - X1(line)) < AxisTolerance

HorizontalSegment(line) ==
  [x1 |-> Min(X1(line), X2(line)), x2 |-> Max(X1(line), X2(line)),
   y1 |-> Y1(line), y2 |-> Y2(line)]

VerticalSegment(line) ==
  [x1 |-> X1(line), x2 |-> X2(line),
   y1 |-> Min(Y1(line), Y2(line)), y2 |-> Max(Y1(line), Y2(line))]

RECURSIVE MapSeq(_, _)
MapSeq(Op(_), s) ==
  IF s = <<>> THEN <<>> ELSE <<Op(Head(s))>> \o MapSeq(Op, Tail(s))

ClassifyHorizontal(lines) == MapSeq(HorizontalSegment, SelectSeq(lines, IsHorizontal))
ClassifyVertical(lines) == MapSeq(VerticalSegment, SelectSeq(lines, IsVertical))

(***************************************************************************)
(* linesOverlap                                                            *)
(***************************************************************************)
LinesOverlapNoTolerance(a1, a2, b1, b2) ==
  \/ (b1 >= a1 /\ b1 <= a2)
  \/ (b2 >= a1 /\ b2 <= a2)
  \/ (a1 >= b1 /\ a1 <= b2)
  \/ (a2 >= b1 /\ a2 <= b2)
LinesOverlap(a1, a2, b1, b2) ==
  \/ (b1 >= a1 - OverlapTolerance /\ b1 <= a2 + OverlapTolerance)
  \/ (b2 >= a1 - OverlapTolerance /\ b2 <= a2 + OverlapTolerance)
  \/ (a1 >= b1 - OverlapTolerance /\ a1 <= b2 + OverlapTolerance)
  \/ (a2 >= b1 - OverlapTolerance /\ a2 <= b2 + OverlapTolerance)

\* the eight checks of the innermost if
FormsRectangle(h1Line, h2Line, v1Line, v2Line) ==
  /\ LinesOverlap(h1Line.x1, h1Line.x2, v1Line.x1, v1Line.x1)
  /\ LinesOverlap(h1Line.x1, h1Line.x2, v2Line.x1, v2Line.x1)
  /\ LinesOverlap(h2Line.x1, h2Line.x2, v1Line.x1, v1Line.x1)
  /\ LinesOverlap(h2Line.x1, h2Line.x2, v2Line.x1, v2Line.x1)
  /\ LinesOverlap(v1Line.y1, v1Line.y2, h1Line.y1, h1Line.y1)
  /\ LinesOverlap(v1Line.y1, v1Line.y2, h2Line.y1, h2Line.y1)
  /\ LinesOverlap(v2Line.y1, v2Line.y2, h1Line.y1, h1Line.y1)
  /\ LinesOverlap(v2Line.y1, v2Line.y2, h2Line.y1, h2Line.y1)

CandidateRoomMaxCorner(h1Line, h2Line, v1Line, v2Line) ==
  [x |-> Max(v1Line.x1, v2Line.x1),
   y |-> Max(h1Line.y1, h2Line.y1),
   width |-> Abs(v1Line.x1 - v2Line.x1),
   height |-> Abs(h1Line.y1 - h2Line.y1)]

CandidateRoom(h1Line, h2Line, v1Line, v2Line) ==
  [x |-> Min(v1Line.x1, v2Line.x1),
   y |-> Min(h1Line.y1, h2Line.y1),
   width |-> Abs(v1Line.x1 - v2Line.x1),
   height |-> Abs(h1Line.y1 - h2Line.y1)]

\* rooms.some(room => ... < 0.5 on all four fields)
IsDuplicateExact(rooms, c) == \E i \in 1..Len(rooms) : rooms[i] = c
IsDuplicate(rooms, c) ==
  \E i \in 1..Len(rooms) :
    /\ Abs(rooms[i].x - c.x) < DuplicateTolerance
    /\ Abs(rooms[i].y - c.y) < DuplicateTolerance
    /\ Abs(rooms[i].width - c.width) < DuplicateTolerance
    /\ Abs(rooms[i].height - c.height) < DuplicateTolerance

\* if (width > 1 && height > 1) { if (!isDuplicate) rooms.push(...) }
AddRoom(rooms, c) ==
  IF c.width > MinSeparation /\ c.height > MinSeparation
  THEN IF IsDuplicate(rooms, c) THEN rooms ELSE Append(rooms, c)
  ELSE rooms

\* body of the v2 loop
VisitQuad(rooms, h1Line, h2Line, v1Line, v2Line) ==
  IF /\ Abs(v1Line.x1 - v2Line.x1) > MinSeparation
     /\ FormsRectangle(h1Line, h2Line, v1Line, v2Line)
  THEN AddRoom(rooms, CandidateRoom(h1Line, h2Line, v1Line, v2Line))
  ELSE rooms

\* The four nested for loops.  rooms is the array so far; it only grows, and
\* each loop compares the lengths before it goes on.
\* for (let v2 = v1 + 1; v2 < verticalLines.length; v2++), from v2 on
RECURSIVE LoopV2(_, _, _, _, _, _)
LoopV2(rooms, h1Line, h2Line, V, v1, v2) ==
  IF v2 > Len(V) THEN rooms
  ELSE LET next == VisitQuad(rooms, h1Line, h2Line, V[v1], V[v2])
       IN IF Len(next) >= Len(rooms)
          THEN LoopV2(next, h1Line, h2Line, V, v1, v2 + 1)
          ELSE next

\* for (let v1 = 0; v1 < verticalLines.length; v1++), from v1 on
RECURSIVE LoopV1(_, _, _, _, _)
LoopV1(rooms, h1Line, h2Line, V, v1) ==
  IF v1 > Len(V) THEN rooms
  ELSE LET next == LoopV2(rooms, h1Line, h2Line, V, v1, v1 + 1)
       IN IF Len(next) >= Len(rooms)
          THEN LoopV1(next, h1Line, h2Line, V, v1 + 1)
          ELSE next

\* for (let h2 = h1 + 1; h2 < horizontalLines.length; h2++), from h2 on
RECURSIVE LoopH2(_, _, _, _, _)
LoopH2(rooms, H, V, h1, h2) ==
  IF h2 > Len(H) THEN rooms
  ELSE LET next == IF Abs(H[h1].y1 - H[h2].y1) > MinSeparation
                   THEN LoopV1(rooms, H[h1], H[h2], V, 1)
                   ELSE rooms
       IN IF Len(next) >= Len(rooms)
          THEN LoopH2(next, H, V, h1, h2 + 1)
          ELSE next

\* for (let h1 = 0; h1 < horizontalLines.length; h1++), from h1 on
RECURSIVE LoopH1(_, _, _, _)
LoopH1(rooms, H, V, h1) ==
  IF h1 > Len(H) THEN rooms
  ELSE LET next == LoopH2(rooms, H, V, h1, h1 + 1)
       IN IF Len(next) >= Len(rooms)
          THEN LoopH1(next, H, V, h1 + 1)
          ELSE next

DetectRooms(H, V) == LoopH1(<<>>, H, V, 1)

(***************************************************************************)
(* Corridors: rooms.forEach(...)                                           *)
(***************************************************************************)
IsCorridorRoomWideOnly(room) ==
  room.width > room.height * 3 /\ room.height < CorridorMinor
IsCorridorRoom(room) ==
  \/ (room.width > room.height * 3 /\ room.height < CorridorMinor)
  \/ (room.height > room.width * 3 /\ room.width < CorridorMinor)

CorridorOfNoHalf(room) ==
  IF room.width > room.height
  THEN [x1 |-> room.x,
        y1 |-> room.y + room.height,
        x2 |-> room.x + room.width,
        y2 |-> room.y + room.height,
        width |-> room.height]
  ELSE [x1 |-> room.x + room.width,
        y1 |-> room.y,
        x2 |-> room.x + room.width,
        y2 |-> room.y + room.height,
        width |-> room.width]

CorridorOf(room) ==
  IF room.width > room.height
  THEN [x1 |-> room.x,
        y1 |-> room.y + room.height \div 2,
        x2 |-> room.x + room.width,
        y2 |-> room.y + room.height \div 2,
        width |-> room.height]
  ELSE [x1 |-> room.x + room.width \div 2,
        y1 |-> room.y,
        x2 |-> room.x + room.width \div 2,
        y2 |-> room.y + room.height,
        width |-> room.width]

DeriveCorridorsUnfiltered(rooms) == MapSeq(CorridorOf, rooms)
DeriveCorridors(rooms) == MapSeq(CorridorOf, SelectSeq(rooms, IsCorridorRoom))

(***************************************************************************)
(* identifyStructures                                                      *)
(***************************************************************************)
IdentifyThrows(elems) ==
  \E i \in 1..Len(LineElements(elems)) : DestructureThrows(LineElements(elems)[i])

IdentifiedHorizontal(elems) == ClassifyHorizontal(LineElements(elems))
IdentifiedVertical(elems) == ClassifyVertical(LineElements(elems))

StructureSet(rooms) == [rooms |-> rooms, corridors |-> DeriveCorridors(rooms)]

IdentifyStructuresOf(elems) ==
  StructureSet(DetectRooms(IdentifiedHorizontal(elems), IdentifiedVertical(elems)))

NoStructures == [rooms |-> <<>>, corridors |-> <<>>]

(***************************************************************************)
(* Text.  A string is the sequence of its characters, each a one-character *)
(* string; a Hangul syllable is written as its romanised name ("pyeong").  *)
(***************************************************************************)
UpperChars == <<"A", "B", "C", "D", "E", "F", "G", "H", "I", "J", "K", "L", "M", "N", "O", "P", "Q", "R", "S", "T", "U", "V", "W", "X", "Y", "Z">>
LowerChars == <<"a", "b", "c", "d", "e", "f", "g", "h", "i", "j", "k", "l", "m", "n", "o", "p", "q", "r", "s", "t", "u", "v", "w", "x", "y", "z">>
Digits == {"0", "1", "2", "3", "4", "5", "6", "7", "8", "9"}

ToLowerChar(c) ==
  IF \E i \in 1..26 : UpperChars[i] = c
  THEN LowerChars[CHOOSE i \in 1..26 : UpperChars[i] = c]
  ELSE c

\* String.prototype.toLowerCase
ToLowerCase(str) == [i \in 1..Len(str) |-> ToLowerChar(str[i])]

\* String.prototype.includes
Includes(str, sub) ==
  \E i \in 1..(Len(str) - Len(sub) + 1) : SubSeq(str, i, i + Len(sub) - 1) = sub

\* String.prototype.trim; the space is the only white space of the model's texts
RECURSIVE TrimStart(_)
TrimStart(str) ==
  IF str # <<>> /\ Head(str) = " " THEN TrimStart(Tail(str)) ELSE str

RECURSIVE TrimEnd(_)
TrimEnd(str) ==
  IF str # <<>> /\ str[Len(str)] = " "
  THEN TrimEnd(SubSeq(str, 1, Len(str) - 1))
  ELSE str

Trim(str) == TrimEnd(TrimStart(str))

KwPlan == <<"p", "l", "a", "n">>
KwFloorPlan == <<"f", "l", "o", "o", "r", " ", "p", "l", "a", "n">>
KwElevation == <<"e", "l", "e", "v", "a", "t", "i", "o", "n">>
KwSection == <<"s", "e", "c", "t", "i", "o", "n">>
\* '평면도', '설계도', '입면도', '입면', '단면도'
KwPyeongmyeondo == <<"pyeong", "myeon", "do">>
KwSeolgyedo == <<"seol", "gye", "do">>
KwIpmyeondo == <<"ip", "myeon", "do">>
KwIpmyeon == <<"ip", "myeon">>
KwDanmyeondo == <<"dan", "myeon", "do">>

\* both dimension patterns need a digit, and the first matches any digit: the
\* two tests together hold exactly for the strings that contain a digit
MatchesDimension(str) == \E i \in 1..Len(str) : str[i] \in Digits

(***************************************************************************)
(* generateAutoCADInterpretation                                           *)
(***************************************************************************)
TextElements(elems) == SelectSeq(elems, LAMBDA e : e.type = "text")
CircleElements(elems) == SelectSeq(elems, LAMBDA e : e.type = "circle")

\* the property names every object literal inherits from Object.prototype
InheritedKeys ==
  {"constructor", "toString", "toLocaleString", "valueOf", "hasOwnProperty",
   "isPrototypeOf", "propertyIsEnumerable", "__proto__", "__defineGetter__",
   "__defineSetter__", "__lookupGetter__", "__lookupSetter__"}

\* the reduce that builds layerGroups on {}: for a layer named like an
\* inherited property acc[curr.layer] is that property, which is truthy, so no
\* array is stored and acc[curr.layer].push is not a function
GroupingThrows(elems) == \E i \in 1..Len(elems) : elems[i].layer \in InheritedKeys

\* the reduce over the elements, then the forEach over lineElements, which
\* destructures every line
SummaryThrows(elems) ==
  \/ GroupingThrows(elems)
  \/ \E i \in 1..Len(LineElements(elems)) : DestructureThrows(LineElements(elems)[i])

\* horizontalLines and verticalLines of generateAutoCADInterpretation
SummaryHorizontal(elems) == SelectSeq(LineElements(elems), IsHorizontal)
SummaryVertical(elems) == SelectSeq(LineElements(elems), IsVertical)

HorizontalLength(line) == Abs(X2(line) - X1(line))
VerticalLength(line) == Abs(Y2(line) - Y1(line))

RECURSIVE MaxLength(_, _)
MaxLength(Length(_), lines) ==
  IF lines = <<>> THEN 0
  ELSE Max(Length(Head(lines)), MaxLength(Length, Tail(lines)))

MaxHorizontalLength(elems) == MaxLength(HorizontalLength, SummaryHorizontal(elems))
MaxVerticalLength(elems) == MaxLength(VerticalLength, SummaryVertical(elems))

\* toFixed(1) of a length (1/40) and of an area (1/1600), in tenths; a value
\* exactly between two tenths is rounded up
ToFixed1(v) == (v + 2) \div 4
AreaToFixed1(a) == (a + 80) \div 160

SomeText(elems, Test(_)) ==
  \E i \in 1..Len(TextElements(elems)) : Test(TextElements(elems)[i].content)

HasPlanKeyword(str) ==
  \/ Includes(ToLowerCase(str), KwPlan)
  \/ Includes(str, KwPyeongmyeondo)
  \/ Includes(str, KwSeolgyedo)
HasElevationKeyword(str) ==
  Includes(ToLowerCase(str), KwElevation) \/ Includes(str, KwIpmyeondo)
HasSectionKeyword(str) ==
  Includes(ToLowerCase(str), KwSection) \/ Includes(str, KwDanmyeondo)

ManyLinesMore == 5 + 6
ManyLines == 10

BuildingTypeStructureFirst(elems) ==
  IF Len(SummaryHorizontal(elems)) > ManyLines /\ Len(SummaryVertical(elems)) > ManyLines
  THEN "orthogonal plan"
  ELSE IF 2 * Len(CircleElements(elems)) > Len(LineElements(elems))
  THEN "mechanical"
  ELSE IF SomeText(elems, HasPlanKeyword) THEN "plan"
  ELSE IF SomeText(elems, HasElevationKeyword) THEN "elevation"
  ELSE IF SomeText(elems, HasSectionKeyword) THEN "section"
  ELSE "unknown"

BuildingType(elems) ==
  IF SomeText(elems, HasPlanKeyword) THEN "plan"
  ELSE IF SomeText(elems, HasElevationKeyword) THEN "elevation"
  ELSE IF SomeText(elems, HasSectionKeyword) THEN "section"
  ELSE IF Len(SummaryHorizontal(elems)) > ManyLines
          /\ Len(SummaryVertical(elems)) > ManyLines
  THEN "orthogonal plan"
  ELSE IF 2 * Len(CircleElements(elems)) > Len(LineElements(elems))
  THEN "mechanical"
  ELSE "unknown"

\* a stable sort, largest key first
RECURSIVE InsertDescending(_, _, _)
InsertDescending(Key(_), x, s) ==
  IF s = <<>> THEN <<x>>
  ELSE IF Key(Head(s)) >= Key(x)
  THEN <<Head(s)>> \o InsertDescending(Key, x, Tail(s))
  ELSE <<x>> \o s

RECURSIVE SortDescending(_, _)
SortDescending(Key(_), s) ==
  IF s = <<>> THEN <<>>
  ELSE InsertDescending(Key, s[Len(s)], SortDescending(Key, SubSeq(s, 1, Len(s) - 1)))

\* Object.entries(layerGroups): the layer names in order of first appearance
\* (the order of an object's keys, none of the model's names being an integer
\* index), each with its member count
RECURSIVE LayerNames(_)
LayerNames(elems) ==
  IF elems = <<>> THEN <<>>
  ELSE LET before == LayerNames(SubSeq(elems, 1, Len(elems) - 1))
           name == elems[Len(elems)].layer
       IN IF \E i \in 1..Len(before) : before[i] = name
          THEN before ELSE Append(before, name)

LayerCount(elems, name) ==
  Cardinality({i \in 1..Len(elems) : elems[i].layer = name})

LayerEntries(elems) ==
  [i \in 1..Len(LayerNames(elems)) |->
     [name |-> LayerNames(elems)[i], count |-> LayerCount(elems, LayerNames(elems)[i])]]

EntryCount(entry) == entry.count

FirstN(s, n) == SubSeq(s, 1, Min(n, Len(s)))

MainLayersUnsorted(elems) == FirstN(LayerEntries(elems), 3)
MainLayers(elems) == FirstN(SortDescending(EntryCount, LayerEntries(elems)), 3)

RoomSize(room) ==
  [width |-> ToFixed1(room.width), height |-> ToFixed1(room.height),
   area |-> AreaToFixed1(room.width * room.height)]

SizeArea(size) == size.area

RoomSizesUnsorted(rooms) == MapSeq(RoomSize, rooms)
RoomSizes(rooms) == SortDescending(SizeArea, MapSeq(RoomSize, rooms))

IsImportantText(t) == Len(Trim(t.content)) > 1
IsDimensionText(t) == MatchesDimension(t.content)
ContentOf(t) == t.content

ImportantTextsSliceFirst(elems) ==
  MapSeq(ContentOf, SelectSeq(FirstN(TextElements(elems), 5), IsImportantText))
ImportantTexts(elems) ==
  FirstN(MapSeq(ContentOf, SelectSeq(TextElements(elems), IsImportantText)), 5)

DimensionTexts(elems) ==
  MapSeq(ContentOf, SelectSeq(TextElements(elems), IsDimensionText))

HasFloorPlanKeyword(str) ==
  Includes(ToLowerCase(str), KwFloorPlan) \/ Includes(str, KwPyeongmyeondo)
HasElevationPurposeKeyword(str) ==
  Includes(ToLowerCase(str), KwElevation) \/ Includes(str, KwIpmyeon)

LargeRoomArea == 32000

HasLargeRoom(rooms) ==
  \E i \in 1..Len(rooms) : rooms[i].width * rooms[i].height > LargeRoomArea

PurposeLargeRoomFirst(elems, rooms) ==
  IF SomeText(elems, HasFloorPlanKeyword) THEN <<"floor plan">>
  ELSE IF SomeText(elems, HasElevationPurposeKeyword) THEN <<"elevation">>
  ELSE IF 2 * Len(CircleElements(elems)) > Len(LineElements(elems))
  THEN <<"mechanical">>
  ELSE IF /\ Len(SummaryHorizontal(elems)) > 5
          /\ Len(SummaryVertical(elems)) > 5
          /\ Len(rooms) > 2
  THEN IF HasLargeRoom(rooms) THEN <<"building plan", "commercial or studio">>
       ELSE IF Len(rooms) >= 4
       THEN <<"building plan", "residential or office">>
       ELSE <<"building plan">>
  ELSE <<"generic">>
Purpose(elems, rooms) ==
  IF SomeText(elems, HasFloorPlanKeyword) THEN <<"floor plan">>
  ELSE IF SomeText(elems, HasElevationPurposeKeyword) THEN <<"elevation">>
  ELSE IF 2 * Len(CircleElements(elems)) > Len(LineElements(elems))
  THEN <<"mechanical">>
  ELSE IF /\ Len(SummaryHorizontal(elems)) > 5
          /\ Len(SummaryVertical(elems)) > 5
          /\ Len(rooms) > 2
  THEN IF Len(rooms) >= 4 THEN <<"building plan", "residential or office">>
       ELSE IF Len(rooms) <= 3 /\ HasLargeRoom(rooms)
       THEN <<"building plan", "commercial or studio">>
       ELSE <<"building plan">>
  ELSE <<"generic">>

RoomsParagraphAlways(rooms) ==
  <<[kind |-> "rooms", count |-> Len(rooms), sizes |-> <<>>]>>

\* the paragraph on rooms, present when a room was found
RoomsParagraph(rooms) ==
  IF Len(rooms) > 0
  THEN <<[kind |-> "rooms", count |-> Len(rooms),
          sizes |-> IF Len(rooms) > 1
                    THEN <<RoomSizes(rooms)[1], RoomSizes(rooms)[Len(rooms)]>>
                    ELSE <<RoomSizes(rooms)[1]>>]>>
  ELSE <<>>

\* the paragraphs on text, present when there is a text element
TextParagraphs(elems) ==
  IF Len(TextElements(elems)) > 0
  THEN <<[kind |-> "texts", quoted |-> ImportantTexts(elems)]>> \o
       (IF Len(DimensionTexts(elems)) > 0
        THEN <<[kind |-> "dimensions", quoted |-> DimensionTexts(elems)]>>
        ELSE <<>>)
  ELSE <<>>

\* the pieces of the returned string, in the order they are appended
InterpretationOf(elems, rooms) ==
  <<[kind |-> "type", buildingType |-> BuildingType(elems)],
    [kind |-> "scale", width |-> ToFixed1(MaxHorizontalLength(elems)),
     height |-> ToFixed1(MaxVerticalLength(elems))],
    [kind |-> "composition", total |-> Len(elems),
     lines |-> Len(LineElements(elems)),
     circles |-> Len(CircleElements(elems)),
     texts |-> Len(TextElements(elems))],
    [kind |-> "layers", count |-> Len(LayerNames(elems)),
     main |-> MainLayers(elems)]>>
  \o RoomsParagraph(rooms)
  \o TextParagraphs(elems)
  \o <<[kind |-> "purpose", purpose |-> Purpose(elems, rooms)],
       [kind |-> "disclaimer"]>>

(***************************************************************************)
(* fileUtils.getFileExtension, interpretFile and the stub decoders         *)
(***************************************************************************)
\* String.prototype.split on a one-character separator
RECURSIVE Split(_, _)
Split(str, sep) ==
  IF \E i \in 1..Len(str) : str[i] = sep
  THEN LET i == CHOOSE k \in 1..Len(str) :
                  str[k] = sep /\ \A j \in 1..(k - 1) : str[j] # sep
       IN <<SubSeq(str, 1, i - 1)>> \o Split(SubSeq(str, i + 1, Len(str)), sep)
  ELSE <<str>>

GetFileExtensionCaseSensitive(fileName) ==
  LET parts == Split(fileName, ".")
  IN IF Len(parts) > 1 THEN parts[Len(parts)] ELSE <<>>

GetFileExtension(fileName) ==
  LET parts == Split(fileName, ".")
  IN IF Len(parts) > 1 THEN ToLowerCase(parts[Len(parts)]) ELSE <<>>

ExtDwg == <<"d", "w", "g">>
ExtHwp == <<"h", "w", "p">>

\* the elements the AutoCAD stub decodes from any file; its text is the
\* five-character Korean title
DummyElements ==
  <<Line(0, 0, 4000, 4000, "Layer1"),
    Circle(2000, 2000, 1200, "Layer2"),
    Text(<<"do", "myeon", " ", "je", "mok">>, 800, 3200, "Title"),
    Line(0, 4000, 4000, 0, "Layer1"),
    Circle(1000, 3000, 600, "Layer2")>>

\* this.generateAutoCADInterpretation(elements) in the timer callback
DummyInterpretation ==
  InterpretationOf(DummyElements, IdentifyStructuresOf(DummyElements).rooms)

\* the value interpretAutoCADFile's timer callback resolves with
AutoCADDataOf(f) ==
  [fileType |-> "AutoCAD", fileName |-> f.name, fileSize |-> f.size,
   elements |-> DummyElements,
   analysis |-> [totalElements |-> Len(DummyElements),
                 layers |-> <<"Layer1", "Layer2", "Title">>,
                 dimensions |-> [width |-> 4000, height |-> 4000]],
   interpretation |-> DummyInterpretation]

\* the sections and the title the HWP stub decodes from any file; the two
\* texts have 12 and 30 characters
DummySections ==
  <<[type |-> "text",
     content |-> <<"han", "geul", " ", "mun", "seo", " ", "tek", "seu", "teu", " ",
                   "nae", "yong">>],
    [type |-> "table", rows |-> 3, columns |-> 4, data |-> <<>>],
    [type |-> "image",
     description |-> <<"mun", "seo", "e", " ", "po", "ham", "doen", " ", "i", "mi", "ji">>],
    [type |-> "text",
     content |-> <<"chu", "ga", " ", "tek", "seu", "teu", " ", "nae", "yong", "ip",
                   "ni", "da", ".", " ", "i", " ", "mun", "seo", "neun", " ", "ye",
                   "si", " ", "de", "i", "teo", "ip", "ni", "da", ".">>]>>
DummyTitle == <<"mun", "seo", " ", "je", "mok">>

\* Array.prototype.join of strings
RECURSIVE Join(_, _)
Join(strs, sep) ==
  IF strs = <<>> THEN <<>>
  ELSE IF Len(strs) = 1 THEN strs[1]
  ELSE strs[1] \o sep \o Join(Tail(strs), sep)

SectionCount(sections, type) ==
  Cardinality({i \in 1..Len(sections) : sections[i].type = type})

\* the pieces of generateHWPInterpretation's string
HWPInterpretationOf(sections, title) ==
  LET texts == SelectSeq(sections, LAMBDA sec : sec.type = "text")
      textContents == Join([i \in 1..Len(texts) |-> texts[i].content], <<" ">>)
      described == SelectSeq(<<"text", "table", "image">>,
                             LAMBDA type : SectionCount(sections, type) > 0)
  IN <<[kind |-> "document", title |-> title, sections |-> Len(sections),
        types |-> [i \in 1..Len(described) |->
                     [type |-> described[i],
                      count |-> SectionCount(sections, described[i])]]]>>
     \o (IF Len(textContents) > 0
         THEN <<[kind |-> "content",
                 quoted |-> IF Len(textContents) < 200 THEN textContents
                            ELSE SubSeq(textContents, 1, 100) \o <<".", ".", ".">>]>>
         ELSE <<>>)
     \o <<[kind |-> "disclaimer"]>>

\* this.generateHWPInterpretation(sections, title) in the timer callback
DummyHWPInterpretation == HWPInterpretationOf(DummySections, DummyTitle)

\* the value interpretHWPFile's timer callback resolves with
HWPDataOf(f) ==
  [fileType |-> "HWP", fileName |-> f.name, fileSize |-> f.size,
   content |-> [title |-> DummyTitle, sections |-> DummySections],
   analysis |-> [pageCount |-> 5, charCount |-> 2500, imageCount |-> 2],
   interpretation |-> DummyHWPInterpretation]

NoFile == [name |-> <<>>, size |-> 0, given |-> FALSE]
NoResult == [fileType |-> "none"]

(***************************************************************************)
(* App, FileUploader and FileInterpreter                                   *)
(***************************************************************************)
\* String.prototype.endsWith
EndsWith(str, suffix) ==
  Len(str) >= Len(suffix)
    /\ SubSeq(str, Len(str) - Len(suffix) + 1, Len(str)) = suffix

\* the test of validateAndUploadFile
IsAcceptedUpload(f) ==
  \/ EndsWith(ToLowerCase(f.name), <<".">> \o ExtDwg)
  \/ EndsWith(ToLowerCase(f.name), <<".">> \o ExtHwp)

\* what the promise of interpretFile(f) settles to: the data of the decoder,
\* or NoResult when interpretFile throws
SettledValue(f) ==
  IF GetFileExtension(f.name) = ExtDwg THEN AutoCADDataOf(f)
  ELSE IF GetFileExtension(f.name) = ExtHwp THEN HWPDataOf(f)
  ELSE NoResult

\* App before any upload.  handler tells apart the handleInterpretation of
\* one render from that of the render before; deps are the file and the
\* handler that the last render passed to FileInterpreter
AppStart ==
  [file |-> NoFile, interpretedData |-> NoResult, isLoading |-> FALSE,
   stale |-> FALSE, handler |-> 0, deps |-> [file |-> NoFile, handler |-> 0],
   effect |-> FALSE, pending |-> <<>>, uploads |-> 0]

\* const handleInterpretation = (data) => {...}: a new function every render
NewHandler(handler) == 1 - handler

\* setIsLoading(value) on state a: a render is scheduled when the value changes
SetIsLoading(a, value) ==
  [a EXCEPT !.isLoading = value, !.stale = a.stale \/ a.isLoading # value]

\* handleInterpretation(data): the data is a new object, so the state changes
HandleInterpretation(a, data) ==
  [a EXCEPT !.interpretedData = data, !.isLoading = FALSE, !.stale = TRUE]

\* the effect's promise for file f settles: onInterpretationComplete(result),
\* or the catch block
SettleFor(a, f) ==
  IF SettledValue(f) # NoResult
  THEN HandleInterpretation(a, SettledValue(f))
  ELSE SetIsLoading(a, FALSE)

(***************************************************************************)
(* Inputs                                                                  *)
(***************************************************************************)
\* the 10 x 5 rectangle of the specification and lines near it
HBottom == Line(0, 0, 400, 0, "Wall")
HNear == Line(400, 16, 0, 18, "Wall")
HLow == Line(0, 48, 400, 48, "Wall")
HTop == Line(0, 200, 400, 200, "Wall")
VLeft == Line(0, 0, 0, 200, "Wall")
VRight == Line(400, 200, 400, 0, "Wall")
Diagonal == Line(0, 0, 400, 200, "Brace")
Diagonal2 == Line(0, 200, 400, 0, "Brace")

HBottomCopy == Line(0, 0, 400, 0, "Dim")

\* lines that stop short of a corner of the 10 x 5 rectangle: by 0.5, which
\* the overlap tolerance still accepts, and by 0.55, which it does not
HReach == Line(20, 200, 400, 200, "Wall")
VReach == Line(0, 200, 0, 20, "Wall")
VMiss == Line(400, 22, 400, 200, "Wall")

OverlapPool == {HBottom, HNear, HLow, HReach, VLeft, VRight, VReach, VMiss}

\* a third lower side, 0.4 above HNear and 0.8 above HBottom
HFar == Line(0, 32, 400, 32, "Wall")

OrderPool == {HBottom, HNear, HFar, HTop, VLeft, VRight, Diagonal}

LinePool ==
  {HBottom, HBottomCopy, HNear, HLow, HTop, VLeft, VRight, Diagonal, Diagonal2}

\* swapping the two endpoints of a line element
Flip(line) == [line EXCEPT !.coordinates = <<line.coordinates[2], line.coordinates[1]>>]

\* the four exact sides of the axis-aligned rectangle with minimum corner
\* (x0, y0), width w and height h
RectSides(x0, y0, w, h) ==
  <<Line(x0, y0, x0 + w, y0, "Wall"),
    Line(x0, y0 + h, x0 + w, y0 + h, "Wall"),
    Line(x0, y0, x0, y0 + h, "Wall"),
    Line(x0 + w, y0, x0 + w, y0 + h, "Wall")>>

RectOrigins == {-40, 0, 80}
RectWidths == {42, 48, 400}
RectHeights == {42, 200}
Perms4 == {p \in [1..4 -> 1..4] : \A i, j \in 1..4 : p[i] = p[j] => i = j}

RectInputs ==
  {[i \in 1..4 |->
      IF p[i] \in f THEN Flip(RectSides(x0, y0, w, h)[p[i]])
      ELSE RectSides(x0, y0, w, h)[p[i]]] :
     x0 \in RectOrigins, y0 \in RectOrigins, w \in RectWidths,
     h \in RectHeights, p \in Perms4, f \in SUBSET (1..4)}

\* rooms handed to the corridor pass
RoomPool ==
  {[x |-> x, y |-> 0, width |-> w, height |-> h] :
     x \in {0, 40}, w \in {40, 48, 120, 360, 400}, h \in {40, 48, 120, 200}}

\* annotations and stray elements laid over a drawing
TextPlan == Text(<<"F", "l", "o", "o", "r", " ", "P", "l", "a", "n", " ", "A", "-", "1">>, 0, 0, "Title")
TextElevation == Text(<<"E", "L", "E", "V", "A", "T", "I", "O", "N">>, 0, 0, "Title")
TextSection == Text(<<"S", "e", "c", "t", "i", "o", "n", " ", "B">>, 0, 0, "Title")
TextLobby == Text(<<"L", "o", "b", "b", "y">>, 40, 40, "Notes")
Circle30 == Circle(200, 200, 120, "Fixtures")
Degenerate == Line(40, 40, 40, 40, "Points")
\* a line element that carries a single point
OnePointLine == [type |-> "line", coordinates |-> <<<<0, 0>>>>, layer |-> "Wall"]

\* a circle on a layer named "constructor"
CircleConstructor == Circle(0, 0, 40, "constructor")

NotePool ==
  {TextPlan, TextElevation, TextSection, TextLobby, Circle30, Degenerate, OnePointLine,
   CircleConstructor}

\* n elements taken in turn from the sequence cycle
Repeat(cycle, n) == [i \in 1..n |-> cycle[((i - 1) % Len(cycle)) + 1]]

RectangleDrawing == <<HBottom, VLeft, HTop, VRight>>
ThreeRoomDrawing == <<HBottom, HLow, HTop, VLeft, VRight>>
\* eleven horizontal and eleven vertical lines: ten repeated strokes of one
\* side each way, closed by the two opposite sides
GridDrawing == Repeat(<<HBottom>>, 10) \o Repeat(<<VLeft>>, 10) \o <<HTop, VRight>>

HMid == Line(0, 120, 400, 120, "Wall")
\* four levels between two sides: six rooms on four horizontal and two
\* vertical lines
FourLevelDrawing == <<HBottom, HLow, HMid, HTop, VLeft, VRight>>
\* six horizontal and six vertical lines bounding six rooms
SixRoomDrawing ==
  Repeat(<<HBottom>>, 3) \o <<HLow, HMid, HTop>> \o Repeat(<<VLeft>>, 5) \o <<VRight>>
\* six horizontal and six vertical lines bounding three rooms
SixLineThreeRoomDrawing ==
  Repeat(<<HBottom>>, 4) \o <<HLow, HTop>> \o Repeat(<<VLeft>>, 5) \o <<VRight>>
\* a strip 1.05 wide cut at heights 1.2, 2.5 and 3.75: the rooms 1.05 x 1.2
\* and 1.05 x 1.25 have areas 1.26 and 1.3125, both 1.3 to one decimal
NearTieDrawing ==
  <<Line(0, 0, 42, 0, "Wall"), Line(0, 48, 42, 48, "Wall"),
    Line(0, 100, 42, 100, "Wall"), Line(0, 150, 42, 150, "Wall"),
    Line(0, 0, 0, 150, "Wall"), Line(42, 0, 42, 150, "Wall")>>
\* a rectangle on layer Wall with one line on layer Dim and two on layer Brace
LayeredDrawing ==
  <<Line(0, 0, 400, 0, "Dim"), Line(0, 0, 400, 200, "Brace"), HBottom,
    Line(400, 0, 0, 200, "Brace"), VLeft, HTop, VRight>>
\* nine labels: "Hall", "A", "3.5m", " B", "Lobby", "10x20", "WC", "Room 1",
\* "Stairs"; one has a single character and one a single character after a
\* space
AnnotatedDrawing ==
  <<Text(<<"H", "a", "l", "l">>, 0, 0, "Notes"),
    Text(<<"A">>, 0, 40, "Notes"),
    Text(<<"3", ".", "5", "m">>, 0, 80, "Notes"),
    Text(<<" ", "B">>, 0, 120, "Notes"),
    Text(<<"L", "o", "b", "b", "y">>, 0, 160, "Notes"),
    Text(<<"1", "0", "x", "2", "0">>, 0, 200, "Notes"),
    Text(<<"W", "C">>, 0, 240, "Notes"),
    Text(<<"R", "o", "o", "m", " ", "1">>, 0, 280, "Notes"),
    Text(<<"S", "t", "a", "i", "r", "s">>, 0, 320, "Notes")>>
\* exactly ten horizontal and ten vertical lines
TenGridDrawing == Repeat(<<HBottom>>, 9) \o Repeat(<<VLeft>>, 9) \o <<HTop, VRight>>

Drawings ==
  {<<>>, RectangleDrawing, ThreeRoomDrawing, GridDrawing, TenGridDrawing,
   FourLevelDrawing, SixRoomDrawing, SixLineThreeRoomDrawing, NearTieDrawing,
   LayeredDrawing, AnnotatedDrawing}

\* file names: the two supported extensions in several cases, after one dot
\* and after two, other extensions, no dot, nothing after the dot, no name
FileNames ==
  {<<"a", ".", "d", "w", "g">>,
   <<"A", ".", "D", "W", "G">>,
   <<"a", ".", "D", "w", "g">>,
   <<"b", ".", "h", "w", "p">>,
   <<"B", ".", "H", "W", "P">>,
   <<"a", ".", "p", "d", "f">>,
   <<"d", "w", "g">>,
   <<"a", ".", "d", "w", "g", ".", "t", "x", "t">>,
   <<"a", ".", "t", "a", "r", ".", "h", "w", "p">>,
   <<".", "d", "w", "g">>,
   <<"a", ".">>,
   <<"a", ".", "d", "w", "g", "x">>,
   <<>>}
FileSizes == {0, 1, 2048, 5242880}
Files == {[name |-> n, size |-> z, given |-> TRUE] : n \in FileNames, z \in FileSizes}

\* the files a user offers to the uploader
UploadNames ==
  {<<"a", ".", "d", "w", "g">>, <<"B", ".", "H", "W", "P">>,
   <<"c", ".", "D", "w", "g">>, <<"a", ".", "p", "d", "f">>}
UploadFiles == {[name |-> n, size |-> z, given |-> TRUE] : n \in UploadNames, z \in {1, 2048}}

(***************************************************************************)
(* Actions                                                                 *)
(***************************************************************************)
Start(elems) ==
  /\ elements = elems
  /\ pc = "input"
  /\ threw = FALSE
  /\ horizontalLines = <<>>
  /\ verticalLines = <<>>
  /\ structures = NoStructures
  /\ lineCounts = [horizontal |-> 0, vertical |-> 0]
  /\ interpretation = <<>>
  /\ file = NoFile
  /\ promise = "none"
  /\ result = NoResult
  /\ app = AppStart

Init == \E elems \in DistinctSeqs(LinePool, MaxElems) : Start(elems)

InitSummary ==
  \E notes \in BSeq(NotePool, MaxNotes), drawing \in Drawings :
    Start(notes \o drawing)

InitOverlap == \E elems \in DistinctSeqs(OverlapPool, MaxElems) : Start(elems)

InitRect == \E elems \in RectInputs : Start(elems)

InitOrder == \E elems \in DistinctSeqs(OrderPool, MaxElems) : Start(elems)

InitCorridors ==
  /\ elements = <<>>
  /\ pc = "rooms"
  /\ threw = FALSE
  /\ horizontalLines = <<>>
  /\ verticalLines = <<>>
  /\ \E rooms \in BSeq(RoomPool, MaxRooms) :
       structures = [rooms |-> rooms, corridors |-> <<>>]
  /\ lineCounts = [horizontal |-> 0, vertical |-> 0]
  /\ interpretation = <<>>
  /\ file = NoFile
  /\ promise = "none"
  /\ result = NoResult
  /\ app = AppStart

\* a service and a file to interpret
InitFile ==
  /\ elements = <<>>
  /\ pc = "service"
  /\ threw = FALSE
  /\ horizontalLines = <<>>
  /\ verticalLines = <<>>
  /\ structures = NoStructures
  /\ lineCounts = [horizontal |-> 0, vertical |-> 0]
  /\ interpretation = <<>>
  /\ file \in Files
  /\ promise = "none"
  /\ result = NoResult
  /\ app = AppStart

IdentifyStructures ==
  /\ pc = "input"
  /\ pc' = "identified"
  /\ IF IdentifyThrows(elements)
     THEN /\ threw' = TRUE
          /\ UNCHANGED <<horizontalLines, verticalLines, structures>>
     ELSE /\ threw' = FALSE
          /\ horizontalLines' = IdentifiedHorizontal(elements)
          /\ verticalLines' = IdentifiedVertical(elements)
          /\ structures' = IdentifyStructuresOf(elements)
  /\ UNCHANGED <<elements, lineCounts, interpretation, file, promise, result, app>>

GenerateAutoCADInterpretation ==
  /\ pc = "input"
  /\ pc' = "interpreted"
  /\ IF SummaryThrows(elements)
     THEN /\ threw' = TRUE
          /\ UNCHANGED <<horizontalLines, verticalLines, structures, lineCounts,
                         interpretation>>
     ELSE /\ threw' = FALSE
          /\ lineCounts' = [horizontal |-> Len(SummaryHorizontal(elements)),
                            vertical |-> Len(SummaryVertical(elements))]
          /\ horizontalLines' = IdentifiedHorizontal(elements)
          /\ verticalLines' = IdentifiedVertical(elements)
          /\ structures' = IdentifyStructuresOf(elements)
          /\ interpretation' = InterpretationOf(elements, structures'.rooms)
  /\ UNCHANGED <<elements, file, promise, result, app>>

\* the corridor pass of identifyStructures on a given rooms array
CorridorPass ==
  /\ pc = "rooms"
  /\ pc' = "derived"
  /\ structures' = [structures EXCEPT !.corridors = DeriveCorridors(structures.rooms)]
  /\ UNCHANGED <<elements, threw, horizontalLines, verticalLines, lineCounts,
                 interpretation, file, promise, result, app>>

\* interpretFile(file): the dispatch on the extension; the decoder called
\* returns a promise that a timer resolves, any other extension throws, which
\* rejects the promise of the async function
InterpretFile ==
  /\ pc = "service"
  /\ promise = "none"
  /\ promise' = IF GetFileExtension(file.name) = ExtDwg THEN "pending"
                ELSE IF GetFileExtension(file.name) = ExtHwp THEN "pending"
                ELSE "rejected"
  /\ UNCHANGED <<elements, pc, threw, horizontalLines, verticalLines, structures,
                 lineCounts, interpretation, file, result, app>>

\* the setTimeout callback of interpretAutoCADFile or interpretHWPFile
TimerFires ==
  /\ pc = "service"
  /\ promise = "pending"
  /\ promise' = "fulfilled"
  /\ result' = IF GetFileExtension(file.name) = ExtDwg
               THEN AutoCADDataOf(file) ELSE HWPDataOf(file)
  /\ UNCHANGED <<elements, pc, threw, horizontalLines, verticalLines, structures,
                 lineCounts, interpretation, file, app>>

Next == IdentifyStructures

NextCorridors == CorridorPass

NextSummary == IdentifyStructures \/ GenerateAutoCADInterpretation

\* the App component mounted, nothing uploaded yet
InitApp ==
  /\ elements = <<>>
  /\ pc = "app"
  /\ threw = FALSE
  /\ horizontalLines = <<>>
  /\ verticalLines = <<>>
  /\ structures = NoStructures
  /\ lineCounts = [horizontal |-> 0, vertical |-> 0]
  /\ interpretation = <<>>
  /\ file = NoFile
  /\ promise = "none"
  /\ result = NoResult
  /\ app = AppStart

AppUnchanged ==
  UNCHANGED <<elements, pc, threw, horizontalLines, verticalLines, structures,
              lineCounts, interpretation, file, promise, result>>

\* a drop or a choice of file f: validateAndUploadFile, then handleFileUpload,
\* whose two state updates are one render
Upload(f) ==
  /\ pc = "app"
  /\ app.uploads < MaxUploads
  /\ app' = IF IsAcceptedUpload(f)
            THEN [app EXCEPT !.file = f, !.interpretedData = NoResult,
                             !.stale = TRUE, !.uploads = app.uploads + 1]
            ELSE [app EXCEPT !.uploads = app.uploads + 1]
  /\ AppUnchanged

\* React renders App after a state change, once the effect of the render
\* before has run: a new handleInterpretation is made and passed to
\* FileInterpreter, whose effect is scheduled when file or
\* onInterpretationComplete differs from what the last render passed
Render ==
  /\ pc = "app"
  /\ app.stale
  /\ ~app.effect
  /\ LET deps == [file |-> app.file, handler |-> NewHandler(app.handler)]
     IN app' = [app EXCEPT !.stale = FALSE,
                           !.handler = deps.handler,
                           !.deps = deps,
                           !.effect = app.file # NoFile /\ deps # app.deps]
  /\ AppUnchanged

\* the effect of FileInterpreter: setIsLoading(true), then interpretFile(file)
\* with the file of the render, whose promise stays pending
RunEffect ==
  /\ pc = "app"
  /\ app.effect
  /\ Len(app.pending) < MaxPending
  /\ app' = [SetIsLoading(app, TRUE) EXCEPT
               !.effect = FALSE,
               !.pending = Append(app.pending, app.deps.file)]
  /\ AppUnchanged

\* the oldest pending promise settles (the timers all wait 2000 ms) and the
\* rest of the effect's async function runs
Settle ==
  /\ pc = "app"
  /\ app.pending # <<>>
  /\ app' = [SettleFor(app, Head(app.pending)) EXCEPT !.pending = Tail(app.pending)]
  /\ AppUnchanged

NextApp == (\E f \in UploadFiles : Upload(f)) \/ Render \/ RunEffect \/ Settle

NextFile == InterpretFile \/ TimerFires

Spec == Init /\ [][Next]_vars

SpecOverlap == InitOverlap /\ [][Next]_vars

SpecOrder == InitOrder /\ [][Next]_vars

SpecRect == InitRect /\ [][Next]_vars

SpecSummary == InitSummary /\ [][NextSummary]_vars

SpecCorridors == InitCorridors /\ [][NextCorridors]_vars

SpecFile == InitFile /\ [][NextFile]_vars

SpecApp == InitApp /\ [][NextApp]_vars

\* React runs the renders and effects it has scheduled, and timers fire
SpecAppFair ==
  /\ InitApp
  /\ [][NextApp]_vars
  /\ WF_vars(Render)
  /\ WF_vars(RunEffect)
  /\ WF_vars(Settle)

(***************************************************************************)
(* Properties                                                              *)
(***************************************************************************)
Rooms == structures.rooms
Corridors == structures.corridors

\* C1: every room of the returned StructureSet has width > 1 and height > 1
C1_RoomsLargerThanOne ==
  \A i \in 1..Len(Rooms) : Rooms[i].width > 40 /\ Rooms[i].height > 40

\* a room was returned although two horizontal lines of the input lie at most
\* 1 apart and bound, with two verticals, a candidate
C1_Witness ==
  /\ pc = "identified"
  /\ Len(Rooms) >= 1
  /\ Len(verticalLines) >= 2
  /\ \E i, j \in 1..Len(horizontalLines) :
       /\ horizontalLines[i].y1 # horizontalLines[j].y1
       /\ Abs(horizontalLines[i].y1 - horizontalLines[j].y1) <= 40

\* C2: no two distinct rooms of the returned sequence are within 0.5 of each
\* other on x, y, width and height at once
C2_NoNearDuplicateRooms ==
  \A i, j \in 1..Len(Rooms) :
    i # j =>
      ~ /\ Abs(Rooms[i].x - Rooms[j].x) < 20
        /\ Abs(Rooms[i].y - Rooms[j].y) < 20
        /\ Abs(Rooms[i].width - Rooms[j].width) < 20
        /\ Abs(Rooms[i].height - Rooms[j].height) < 20

\* two rooms were returned and a further candidate, different from both, was
\* dropped as a duplicate
C2_Witness ==
  /\ pc = "identified"
  /\ Len(Rooms) >= 2
  /\ \E i, j \in 1..Len(horizontalLines), k, l \in 1..Len(verticalLines) :
       /\ horizontalLines[j].y1 - horizontalLines[i].y1 > 40
       /\ verticalLines[l].x1 - verticalLines[k].x1 > 40
       /\ \A n \in 1..Len(Rooms) :
            Rooms[n] # [x |-> verticalLines[k].x1, y |-> horizontalLines[i].y1,
                        width |-> verticalLines[l].x1 - verticalLines[k].x1,
                        height |-> horizontalLines[j].y1 - horizontalLines[i].y1]
       /\ \E n \in 1..Len(Rooms) :
            /\ Rooms[n].x = verticalLines[k].x1
            /\ Abs(Rooms[n].y - horizontalLines[i].y1) < 20
            /\ Abs(Rooms[n].height - (horizontalLines[j].y1 - horizontalLines[i].y1)) < 20

\* the input is exactly the four exact sides of one axis-aligned rectangle of
\* width > 1 and height > 1, in any order and direction
CoordXs == {elements[i].coordinates[k][1] : i \in 1..Len(elements), k \in 1..2}
CoordYs == {elements[i].coordinates[k][2] : i \in 1..Len(elements), k \in 1..2}
MinOf(S) == CHOOSE m \in S : \A n \in S : m <= n
MaxOf(S) == CHOOSE m \in S : \A n \in S : m >= n
EndPoints(line) == {line.coordinates[1], line.coordinates[2]}
IsExactRectangle ==
  /\ Len(elements) = 4
  /\ \A i \in 1..4 : elements[i].type = "line" /\ Len(elements[i].coordinates) = 2
  /\ MaxOf(CoordXs) - MinOf(CoordXs) > 40
  /\ MaxOf(CoordYs) - MinOf(CoordYs) > 40
  /\ {EndPoints(elements[i]) : i \in 1..4} =
       {{<<MinOf(CoordXs), MinOf(CoordYs)>>, <<MaxOf(CoordXs), MinOf(CoordYs)>>},
        {<<MinOf(CoordXs), MaxOf(CoordYs)>>, <<MaxOf(CoordXs), MaxOf(CoordYs)>>},
        {<<MinOf(CoordXs), MinOf(CoordYs)>>, <<MinOf(CoordXs), MaxOf(CoordYs)>>},
        {<<MaxOf(CoordXs), MinOf(CoordYs)>>, <<MaxOf(CoordXs), MaxOf(CoordYs)>>}}

\* C3: the four exact sides of a rectangle yield exactly one room: its minimum
\* corner, its width and its height
C3_ExactRectangleOneRoom ==
  (pc = "identified" /\ IsExactRectangle) =>
    /\ ~threw
    /\ Rooms = <<[x |-> MinOf(CoordXs), y |-> MinOf(CoordYs),
                 width |-> MaxOf(CoordXs) - MinOf(CoordXs),
                 height |-> MaxOf(CoordYs) - MinOf(CoordYs)]>>

\* the 10 x 5 example of the specification, sides shuffled and one reversed
C3_Witness ==
  /\ pc = "identified"
  /\ IsExactRectangle
  /\ elements[1] = Line(400, 200, 400, 0, "Wall")
  /\ elements[4] = Line(0, 0, 400, 0, "Wall")
  /\ Rooms = <<[x |-> 0, y |-> 0, width |-> 400, height |-> 200]>>

\* the corridor the source derives from a wide room
WideCorridor(room) ==
  [x1 |-> room.x, y1 |-> room.y + room.height \div 2,
   x2 |-> room.x + room.width, y2 |-> room.y + room.height \div 2,
   width |-> room.height]

\* C4: a room with width > 3 * height and height < 3 yields exactly one
\* corridor, along the room's x-extent at half its height, as wide as the room
\* is high; a 9 x 1 room yields one corridor of width 1 at y + 0.5
C4_WideRoomCorridor ==
  pc \in {"derived", "identified"} =>
    /\ \A i \in 1..Len(Rooms) :
         (Rooms[i].width > 3 * Rooms[i].height /\ Rooms[i].height < 120) =>
           Cardinality({k \in 1..Len(Corridors) : Corridors[k] = WideCorridor(Rooms[i])})
             = Cardinality({j \in 1..Len(Rooms) : Rooms[j] = Rooms[i]})
    /\ \A x \in {0, 40} :
         Rooms = <<[x |-> x, y |-> 0, width |-> 360, height |-> 40]>> =>
           Corridors = <<[x1 |-> x, y1 |-> 20, x2 |-> x + 360, y2 |-> 20, width |-> 40]>>

\* the 9 x 1 room next to a room that is no corridor
C4_Witness ==
  /\ pc = "derived"
  /\ Len(Rooms) = 2
  /\ Rooms[2] = [x |-> 40, y |-> 0, width |-> 360, height |-> 40]
  /\ Corridors = <<[x1 |-> 40, y1 |-> 20, x2 |-> 400, y2 |-> 20, width |-> 40]>>

\* |dy| >= 0.1 and |dx| >= 0.1
IsDiagonalElement(e) ==
  /\ e.type = "line"
  /\ Abs(e.coordinates[2][2] - e.coordinates[1][2]) >= 4
  /\ Abs(e.coordinates[2][1] - e.coordinates[1][1]) >= 4

\* C5: when every line element is diagonal, the horizontal and the vertical
\* set are empty and no room and no corridor is returned
C5_AllDiagonalNoStructure ==
  (pc = "identified"
     /\ \A i \in 1..Len(elements) :
          elements[i].type = "line" => IsDiagonalElement(elements[i])) =>
    /\ horizontalLines = <<>>
    /\ verticalLines = <<>>
    /\ Rooms = <<>>
    /\ Corridors = <<>>

\* the two diagonals of the 10 x 5 rectangle
C5_Witness ==
  /\ pc = "identified"
  /\ Len(elements) = 2
  /\ \A i \in 1..Len(elements) : IsDiagonalElement(elements[i])
  /\ \E i, j \in 1..Len(elements) : elements[i] # elements[j]

HasPiece(kind) == \E i \in 1..Len(interpretation) : interpretation[i].kind = kind
TypePieces == {i \in 1..Len(interpretation) : interpretation[i].kind = "type"}
IsTextAt(i) == elements[i].type = "text"
IsLineAt(i) == elements[i].type = "line"
IsCircleAt(i) == elements[i].type = "circle"

\* C6: for the empty element list the call returns a string with the
\* disclaimer and without the paragraphs on rooms and on text; whenever it
\* returns, the rooms paragraph is there exactly when a room was detected and
\* the text paragraph exactly when there is a text element
C6_ParagraphsFollowContent ==
  pc = "interpreted" =>
    /\ elements = <<>> =>
         /\ ~threw
         /\ HasPiece("disclaimer")
         /\ ~HasPiece("rooms")
         /\ ~HasPiece("texts")
         /\ ~HasPiece("dimensions")
    /\ ~threw =>
         /\ HasPiece("rooms") <=> Len(Rooms) >= 1
         /\ HasPiece("texts") <=> \E i \in 1..Len(elements) : IsTextAt(i)

C6_Witness ==
  /\ pc = "interpreted"
  /\ elements = <<>>
  /\ ~threw
  /\ Len(interpretation) >= 1
  /\ interpretation[Len(interpretation)].kind = "disclaimer"

SomeTextHas(Test(_)) ==
  \E i \in 1..Len(elements) : IsTextAt(i) /\ Test(elements[i].content)
CircleTotal == Cardinality({i \in 1..Len(elements) : IsCircleAt(i)})
LineTotal == Cardinality({i \in 1..Len(elements) : IsLineAt(i)})

\* C7: the drawing type is that of the first rule that matches, in the order
\* plan keyword, elevation keyword, section keyword, more than ten horizontal
\* and more than ten vertical lines, circles > lines / 2, unknown; one type is
\* emitted; a text containing 'plan' in any case selects the plan type
C7_FirstMatchingType ==
  (pc = "interpreted" /\ ~threw) =>
    /\ Cardinality(TypePieces) = 1
    /\ interpretation[1].kind = "type"
    /\ interpretation[1].buildingType =
         IF SomeTextHas(HasPlanKeyword) THEN "plan"
         ELSE IF SomeTextHas(HasElevationKeyword) THEN "elevation"
         ELSE IF SomeTextHas(HasSectionKeyword) THEN "section"
         ELSE IF lineCounts.horizontal > 10 /\ lineCounts.vertical > 10
         THEN "orthogonal plan"
         ELSE IF 2 * CircleTotal > LineTotal THEN "mechanical"
         ELSE "unknown"
    /\ (\E i \in 1..Len(elements) :
          /\ IsTextAt(i)
          /\ \E k \in 1..Len(elements[i].content) - 3 :
               /\ elements[i].content[k] \in {"p", "P"}
               /\ elements[i].content[k + 1] \in {"l", "L"}
               /\ elements[i].content[k + 2] \in {"a", "A"}
               /\ elements[i].content[k + 3] \in {"n", "N"})
         => interpretation[1].buildingType = "plan"

\* "Floor Plan A-1" after an elevation title, on a drawing with eleven
\* horizontal and eleven vertical lines
C7_Witness ==
  /\ pc = "interpreted"
  /\ ~threw
  /\ Len(elements) >= 2
  /\ elements[1] = TextElevation
  /\ elements[2] = TextPlan
  /\ lineCounts.horizontal > 10
  /\ lineCounts.vertical > 10
  /\ interpretation[1].buildingType = "plan"

\* C9: identifyStructures returns normally whenever every line element has
\* exactly two points, and returns no room and no corridor when there is no
\* line element
C9_IdentifyNeverThrows ==
  pc = "identified" =>
    /\ (\A i \in 1..Len(elements) :
          IsLineAt(i) => Len(elements[i].coordinates) = 2) => ~threw
    /\ (\A i \in 1..Len(elements) : ~IsLineAt(i)) =>
         /\ ~threw
         /\ structures = [rooms |-> <<>>, corridors |-> <<>>]

\* a text and a circle, no line
C9_Witness ==
  /\ pc = "identified"
  /\ Len(elements) = 2
  /\ IsTextAt(1)
  /\ IsCircleAt(2)
  /\ ~threw
  /\ structures = [rooms |-> <<>>, corridors |-> <<>>]

IsDegenerateAt(i) ==
  /\ IsLineAt(i)
  /\ Len(elements[i].coordinates) = 2
  /\ elements[i].coordinates[1] = elements[i].coordinates[2]
ProperLineTotal == Cardinality({i \in 1..Len(elements) : IsLineAt(i) /\ ~IsDegenerateAt(i)})

\* C10: a zero-length line element is put in neither the horizontal nor the
\* vertical set, by identifyStructures and by generateAutoCADInterpretation:
\* both sets together hold no more than the lines of non-zero length
C10_DegenerateInNeitherSet ==
  (pc \in {"identified", "interpreted"} /\ ~threw) =>
    /\ Len(horizontalLines) + Len(verticalLines) <= ProperLineTotal
    /\ pc = "interpreted" =>
         lineCounts.horizontal + lineCounts.vertical <= ProperLineTotal

(***************************************************************************)
(* Drawing type by line counts (C11)                                       *)
(***************************************************************************)
NoTypeKeyword ==
  /\ ~SomeTextHas(HasPlanKeyword)
  /\ ~SomeTextHas(HasElevationKeyword)
  /\ ~SomeTextHas(HasSectionKeyword)

\* C11 as stated: with no plan, elevation or section keyword in any text, a
\* drawing with at least 10 horizontal and at least 10 vertical lines, exactly
\* 10 of each included, is typed 'orthogonal building plan'
C11_TenEachIsOrthogonal ==
  (pc = "interpreted" /\ ~threw /\ NoTypeKeyword
     /\ lineCounts.horizontal >= 10 /\ lineCounts.vertical >= 10)
    => interpretation[1].buildingType = "orthogonal plan"

\* C11 amended: with no plan, elevation or section keyword in any text, a
\* drawing is typed 'orthogonal building plan' exactly when it has more than
\* 10 horizontal and more than 10 vertical lines; with exactly 10 of either
\* kind it falls through to the circle rule or to 'unknown'
C11_MoreThanTenEachIsOrthogonal ==
  (pc = "interpreted" /\ ~threw /\ NoTypeKeyword) =>
    /\ (lineCounts.horizontal >= 11 /\ lineCounts.vertical >= 11)
         <=> interpretation[1].buildingType = "orthogonal plan"
    /\ (lineCounts.horizontal = 10 \/ lineCounts.vertical = 10)
         => interpretation[1].buildingType \in {"mechanical", "unknown"}

\* eleven lines each way and no text at all
C11_Witness ==
  /\ pc = "interpreted"
  /\ ~threw
  /\ elements = GridDrawing
  /\ lineCounts = [horizontal |-> 11, vertical |-> 11]
  /\ interpretation[1].buildingType = "orthogonal plan"

(***************************************************************************)
(* The disclaimer (C12)                                                    *)
(***************************************************************************)
AllLinesHaveTwoPoints ==
  \A i \in 1..Len(elements) : IsLineAt(i) => Len(elements[i].coordinates) = 2

DisclaimerPieces ==
  {i \in 1..Len(interpretation) : interpretation[i].kind = "disclaimer"}

\* C12: for every element list whose lines all have two points, summarize
\* returns normally and the string it returns ends with the disclaimer
\* paragraph, which occurs in it exactly once
C12_EndsWithOneDisclaimer ==
  (pc = "interpreted" /\ AllLinesHaveTwoPoints) =>
    /\ ~threw
    /\ Len(interpretation) >= 1
    /\ interpretation[Len(interpretation)].kind = "disclaimer"
    /\ Cardinality(DisclaimerPieces) = 1

(***************************************************************************)
(* Purpose by room count (C13)                                             *)
(***************************************************************************)
PurposeOf == interpretation[Len(interpretation) - 1].purpose

NoPurposeKeywordNotMechanical ==
  /\ ~SomeTextHas(HasFloorPlanKeyword)
  /\ ~SomeTextHas(HasElevationPurposeKeyword)
  /\ 2 * CircleTotal <= LineTotal

SomeRoomAbove20 ==
  \E i \in 1..Len(Rooms) : Rooms[i].width * Rooms[i].height > 20 * 1600

\* C13 as stated: with no floor-plan or elevation keyword and no more circles
\* than half the lines, a drawing with 4 or more rooms gets the residential /
\* office guess, and one with at most 3 rooms of which one has an area above
\* 20 gets the commercial / studio guess
C13_PurposeByRoomCount ==
  (pc = "interpreted" /\ ~threw /\ NoPurposeKeywordNotMechanical) =>
    /\ Len(Rooms) >= 4 => PurposeOf = <<"building plan", "residential or office">>
    /\ (Len(Rooms) <= 3 /\ SomeRoomAbove20)
         => PurposeOf = <<"building plan", "commercial or studio">>

\* C13 amended: the two guesses are made only inside the building-plan branch,
\* which needs more than 5 horizontal lines, more than 5 vertical lines and
\* more than 2 rooms: there 4 or more rooms give residential / office and
\* exactly 3 rooms with one area above 20 give commercial / studio; without
\* those counts the purpose is the generic one, whatever the rooms
C13_PurposeInsideBuildingBranch ==
  (pc = "interpreted" /\ ~threw /\ NoPurposeKeywordNotMechanical) =>
    IF lineCounts.horizontal > 5 /\ lineCounts.vertical > 5 /\ Len(Rooms) > 2
    THEN /\ Len(Rooms) >= 4
              => PurposeOf = <<"building plan", "residential or office">>
         /\ (Len(Rooms) = 3 /\ SomeRoomAbove20)
              => PurposeOf = <<"building plan", "commercial or studio">>
    ELSE PurposeOf = <<"generic">>

\* six rooms, one of them large, on six lines each way
C13_Witness ==
  /\ pc = "interpreted"
  /\ ~threw
  /\ NoPurposeKeywordNotMechanical
  /\ lineCounts.horizontal > 5
  /\ lineCounts.vertical > 5
  /\ Len(Rooms) = 6
  /\ SomeRoomAbove20
  /\ PurposeOf = <<"building plan", "residential or office">>

\* three rooms, one of them large, on six lines each way
C13_WitnessThreeRooms ==
  /\ pc = "interpreted"
  /\ ~threw
  /\ NoPurposeKeywordNotMechanical
  /\ Len(Rooms) = 3
  /\ PurposeOf = <<"building plan", "commercial or studio">>

(***************************************************************************)
(* The paragraph on rooms (C14)                                            *)
(***************************************************************************)
RoomsPieces == {i \in 1..Len(interpretation) : interpretation[i].kind = "rooms"}
RoomsPiece == interpretation[CHOOSE i \in RoomsPieces : TRUE]

ExactArea(room) == room.width * room.height
\* a value in tenths, to one decimal
Tenths(v, unit) == (10 * v + unit \div 2) \div unit
\* a room as the paragraph states it: width x height and area, to one decimal
Stated(room) ==
  [width |-> Tenths(room.width, 40), height |-> Tenths(room.height, 40),
   area |-> Tenths(ExactArea(room), 1600)]

\* C14 as stated: when at least one room is detected, the paragraph on rooms
\* gives the number of rooms, a largest room whose area is at least that of
\* every room, and a smallest room whose area is at most that of every room
C14_LargestAndSmallestRoom ==
  (pc = "interpreted" /\ ~threw /\ Len(Rooms) >= 1) =>
    /\ Cardinality(RoomsPieces) = 1
    /\ RoomsPiece.count = Len(Rooms)
    /\ Len(RoomsPiece.sizes) = 2
    /\ \E i \in 1..Len(Rooms) :
         /\ RoomsPiece.sizes[1] = Stated(Rooms[i])
         /\ \A j \in 1..Len(Rooms) : ExactArea(Rooms[i]) >= ExactArea(Rooms[j])
    /\ \E i \in 1..Len(Rooms) :
         /\ RoomsPiece.sizes[2] = Stated(Rooms[i])
         /\ \A j \in 1..Len(Rooms) : ExactArea(Rooms[i]) <= ExactArea(Rooms[j])

\* C14 amended: when at least one room is detected, the paragraph gives the
\* number of rooms and a largest room, whose area to one decimal is at least
\* that of every room; a smallest room, whose area to one decimal is at most
\* that of every room, is given only when there are two rooms or more
C14_ExtremesByStatedArea ==
  (pc = "interpreted" /\ ~threw /\ Len(Rooms) >= 1) =>
    /\ Cardinality(RoomsPieces) = 1
    /\ RoomsPiece.count = Len(Rooms)
    /\ Len(RoomsPiece.sizes) = (IF Len(Rooms) = 1 THEN 1 ELSE 2)
    /\ \E i \in 1..Len(Rooms) :
         /\ RoomsPiece.sizes[1] = Stated(Rooms[i])
         /\ \A j \in 1..Len(Rooms) : Stated(Rooms[i]).area >= Stated(Rooms[j]).area
    /\ Len(Rooms) >= 2 =>
         \E i \in 1..Len(Rooms) :
           /\ RoomsPiece.sizes[2] = Stated(Rooms[i])
           /\ \A j \in 1..Len(Rooms) : Stated(Rooms[i]).area <= Stated(Rooms[j]).area

\* the six rooms of the strip: the smallest stated is 1.1 x 1.3, the room of
\* area 1.3125, while the room of area 1.26 is smaller
C14_Witness ==
  /\ pc = "interpreted"
  /\ ~threw
  /\ Len(Rooms) = 6
  /\ RoomsPiece.sizes = <<[width |-> 11, height |-> 38, area |-> 39],
                          [width |-> 11, height |-> 13, area |-> 13]>>
  /\ \E i \in 1..Len(Rooms) : ExactArea(Rooms[i]) < 42 * 50

\* one room only: no smallest room is stated
C14_WitnessOneRoom ==
  /\ pc = "interpreted"
  /\ ~threw
  /\ Len(Rooms) = 1
  /\ Len(RoomsPiece.sizes) = 1

(***************************************************************************)
(* File metadata through interpretFile (C15)                               *)
(***************************************************************************)
Dots == {i \in 1..Len(file.name) : file.name[i] = "."}
\* the text after the last '.', or no extension when the name has no '.'
HasExtension == Dots # {}
ExtensionText ==
  SubSeq(file.name, (CHOOSE i \in Dots : \A j \in Dots : j <= i) + 1, Len(file.name))
ExtensionIs(a, b, c) ==
  /\ HasExtension
  /\ Len(ExtensionText) = 3
  /\ ExtensionText[1] \in a
  /\ ExtensionText[2] \in b
  /\ ExtensionText[3] \in c
IsDwgFile == ExtensionIs({"d", "D"}, {"w", "W"}, {"g", "G"})
IsHwpFile == ExtensionIs({"h", "H"}, {"w", "W"}, {"p", "P"})

\* C15: for a file whose extension, the text after the last '.' in any case,
\* is dwg or hwp, interpretFile is not rejected and the result it resolves
\* with has the file's name as fileName, the file's size as fileSize, and
\* fileType 'AutoCAD' for dwg, 'HWP' for hwp; for any other extension, or
\* none, the promise is rejected and there is no result
C15_MetadataPassedThrough ==
  pc = "service" =>
    /\ (IsDwgFile \/ IsHwpFile) =>
         /\ promise \in {"none", "pending", "fulfilled"}
         /\ promise = "fulfilled" =>
              /\ result.fileName = file.name
              /\ result.fileSize = file.size
              /\ result.fileType = (IF IsDwgFile THEN "AutoCAD" ELSE "HWP")
         /\ promise # "fulfilled" => result = NoResult
    /\ ~(IsDwgFile \/ IsHwpFile) =>
         /\ promise \in {"none", "rejected"}
         /\ result = NoResult

\* A.DWG of 2048 bytes, resolved
C15_Witness ==
  /\ pc = "service"
  /\ promise = "fulfilled"
  /\ file.name = <<"A", ".", "D", "W", "G">>
  /\ result.fileType = "AutoCAD"
  /\ result.fileName = file.name
  /\ result.fileSize = 2048

\* a.dwg.txt, rejected
C15_WitnessRejected ==
  /\ pc = "service"
  /\ promise = "rejected"
  /\ file.name = <<"a", ".", "d", "w", "g", ".", "t", "x", "t">>
  /\ result = NoResult

(***************************************************************************)
(* Layers of the composition paragraph (C16)                               *)
(***************************************************************************)
LayersPiece == interpretation[4]
LayerSet == {elements[i].layer : i \in 1..Len(elements)}
MembersOf(layer) == Cardinality({i \in 1..Len(elements) : elements[i].layer = layer})
NamedLayers == {LayersPiece.main[k].name : k \in 1..Len(LayersPiece.main)}

\* C16: the layer count stated is the number of distinct layer names of the
\* elements; at most 3 layers are named, each with its exact number of
\* elements, in non-increasing order of that number, and no layer left
\* unnamed has more elements than a named one
C16_MainLayers ==
  (pc = "interpreted" /\ ~threw) =>
    /\ LayersPiece.kind = "layers"
    /\ LayersPiece.count = Cardinality(LayerSet)
    /\ Len(LayersPiece.main) <= 3
    /\ Len(LayersPiece.main) = 3 \/ NamedLayers = LayerSet
    /\ Cardinality(NamedLayers) = Len(LayersPiece.main)
    /\ \A k \in 1..Len(LayersPiece.main) :
         /\ LayersPiece.main[k].name \in LayerSet
         /\ LayersPiece.main[k].count = MembersOf(LayersPiece.main[k].name)
         /\ k > 1 => LayersPiece.main[k - 1].count >= LayersPiece.main[k].count
    /\ \A layer \in LayerSet \ NamedLayers :
         \A k \in 1..Len(LayersPiece.main) :
           MembersOf(layer) <= LayersPiece.main[k].count

\* five layers, the two largest met last
C16_Witness ==
  /\ pc = "interpreted"
  /\ ~threw
  /\ LayersPiece.count = 5
  /\ LayersPiece.main = <<[name |-> "Wall", count |-> 4],
                          [name |-> "Brace", count |-> 2],
                          [name |-> "Notes", count |-> 1]>>
  /\ "Fixtures" \in LayerSet \ NamedLayers

(***************************************************************************)
(* The text excerpt (C17)                                                  *)
(***************************************************************************)
TextsPieces == {i \in 1..Len(interpretation) : interpretation[i].kind = "texts"}
Quoted == interpretation[CHOOSE i \in TextsPieces : TRUE].quoted

LongerThanOne(i) == IsTextAt(i) /\ Len(elements[i].content) > 1
\* two characters that are not spaces, so more than one character is left
\* when the spaces at both ends are taken away
LongerThanOneTrimmed(i) ==
  /\ IsTextAt(i)
  /\ \E a, b \in 1..Len(elements[i].content) :
       a < b /\ elements[i].content[a] # " " /\ elements[i].content[b] # " "

\* the contents of the first five elements that qualify, in input order
FirstFive(Qualifies(_)) ==
  LET Q == {i \in 1..Len(elements) : Qualifies(i)}
      Rank(i) == Cardinality({j \in Q : j <= i})
      First == {i \in Q : Rank(i) <= 5}
  IN [n \in 1..Cardinality(First) |->
        elements[CHOOSE i \in First : Rank(i) = n].content]

\* C17 as stated: the excerpt quotes, in input order, the contents of the
\* first min(5, k) text elements of length above 1, k being the number of
\* such elements: never more than 5, never a text of length 1 or less, and a
\* text of length above 1 is left out only when 5 such texts precede it
C17_FirstFiveLongerThanOne ==
  (pc = "interpreted" /\ ~threw /\ TextsPieces # {}) =>
    Quoted = FirstFive(LongerThanOne)

\* C17 amended: the same of the text elements whose content is longer than 1
\* once the white space at its two ends is taken away; the content is quoted
\* as it is, untrimmed
C17_FirstFiveLongerThanOneTrimmed ==
  (pc = "interpreted" /\ ~threw) =>
    /\ Cardinality(TextsPieces) = (IF \E i \in 1..Len(elements) : IsTextAt(i) THEN 1 ELSE 0)
    /\ TextsPieces # {} =>
         /\ Quoted = FirstFive(LongerThanOneTrimmed)
         /\ Len(Quoted) <= 5
         /\ \A n \in 1..Len(Quoted) : Len(Quoted[n]) > 1

\* nine labels after a title: five are quoted, " B" of length 2 is not
C17_Witness ==
  /\ pc = "interpreted"
  /\ ~threw
  /\ Len(elements) = 10
  /\ elements[1] = TextSection
  /\ LongerThanOne(5)
  /\ ~LongerThanOneTrimmed(5)
  /\ Cardinality({i \in 1..Len(elements) : LongerThanOneTrimmed(i)}) = 8
  /\ Len(Quoted) = 5
  /\ Quoted[1] = TextSection.content
  /\ Quoted[4] = TextLobby.content

(***************************************************************************)
(* The criterion of room detection (C18)                                   *)
(***************************************************************************)
\* the check of an extent [lo, hi] against a position
Passes(lo, hi, position) == lo - 20 <= position /\ position <= hi + 20

\* pairs of horizontal and of vertical segments, by their indices
Quads ==
  {q \in (1..Len(horizontalLines)) \X (1..Len(horizontalLines))
         \X (1..Len(verticalLines)) \X (1..Len(verticalLines)) :
     q[1] < q[2] /\ q[3] < q[4]}

Bounds(q) ==
  LET h1 == horizontalLines[q[1]]
      h2 == horizontalLines[q[2]]
      v1 == verticalLines[q[3]]
      v2 == verticalLines[q[4]]
  IN /\ Abs(h1.y1 - h2.y1) > 40
     /\ Abs(v1.x1 - v2.x1) > 40
     /\ Passes(h1.x1, h1.x2, v1.x1)
     /\ Passes(h1.x1, h1.x2, v2.x1)
     /\ Passes(h2.x1, h2.x2, v1.x1)
     /\ Passes(h2.x1, h2.x2, v2.x1)
     /\ Passes(v1.y1, v1.y2, h1.y1)
     /\ Passes(v1.y1, v1.y2, h2.y1)
     /\ Passes(v2.y1, v2.y2, h1.y1)
     /\ Passes(v2.y1, v2.y2, h2.y1)

CandidateOf(q) ==
  LET h1 == horizontalLines[q[1]]
      h2 == horizontalLines[q[2]]
      v1 == verticalLines[q[3]]
      v2 == verticalLines[q[4]]
  IN [x |-> IF v1.x1 < v2.x1 THEN v1.x1 ELSE v2.x1,
      y |-> IF h1.y1 < h2.y1 THEN h1.y1 ELSE h2.y1,
      width |-> Abs(v1.x1 - v2.x1),
      height |-> Abs(h1.y1 - h2.y1)]

Within(a, b) ==
  /\ Abs(a.x - b.x) < 20
  /\ Abs(a.y - b.y) < 20
  /\ Abs(a.width - b.width) < 20
  /\ Abs(a.height - b.height) < 20

\* quadruple p is visited before quadruple q by the four nested loops
Visited(p, q) ==
  \E k \in 1..4 : p[k] < q[k] /\ \A m \in 1..(k - 1) : p[m] = q[m]

\* C18: a pair of horizontal and a pair of vertical segments give a candidate
\* room exactly when the horizontals are more than 1 apart in y, the
\* verticals more than 1 apart in x, and the eight checks pass, a check of an
\* extent [a1, a2] against a position b passing iff a1 - 0.5 <= b <= a2 + 0.5:
\* every room of the output is the candidate of such a quadruple, and the
\* candidate of every such quadruple is in the output or within 0.5, on all
\* four fields, of a room put in the output earlier
C18_RoomCriterion ==
  (pc = "identified" /\ ~threw) =>
    /\ \A n \in 1..Len(Rooms) : \E q \in Quads : Bounds(q) /\ CandidateOf(q) = Rooms[n]
    /\ \A q \in Quads :
         Bounds(q) =>
           \/ \E n \in 1..Len(Rooms) : Rooms[n] = CandidateOf(q)
           \/ \E n \in 1..Len(Rooms) :
                /\ Within(Rooms[n], CandidateOf(q))
                /\ \E p \in Quads :
                     Visited(p, q) /\ Bounds(p) /\ CandidateOf(p) = Rooms[n]

\* a room whose corner is closed only by the tolerance, beside quadruples
\* that are far enough apart but fail a check by 0.05
C18_Witness ==
  /\ pc = "identified"
  /\ ~threw
  /\ Len(Rooms) = 1
  /\ \E q \in Quads :
       /\ Bounds(q)
       /\ horizontalLines[q[2]].x1 = 20
       /\ verticalLines[q[3]].y1 = 20
  /\ \E q \in Quads :
       /\ ~Bounds(q)
       /\ Abs(horizontalLines[q[1]].y1 - horizontalLines[q[2]].y1) > 40
       /\ Abs(verticalLines[q[3]].x1 - verticalLines[q[4]].x1) > 40

\* a quadruple that passes but whose candidate, 0.4 above a room found
\* before it, is not in the output
C18_WitnessDropped ==
  /\ pc = "identified"
  /\ ~threw
  /\ \E q \in Quads :
       /\ Bounds(q)
       /\ \A n \in 1..Len(Rooms) : Rooms[n] # CandidateOf(q)

(***************************************************************************)
(* Direction of the lines (C19)                                            *)
(***************************************************************************)
\* the input with the two points of the lines at the indices in F swapped
Swapped(F) == [i \in 1..Len(elements) |-> IF i \in F THEN Flip(elements[i]) ELSE elements[i]]

\* C19: swapping the two points of any of the input lines, lines that are
\* nearly horizontal (0 < |dy| < 0.1) or nearly vertical (0 < |dx| < 0.1)
\* included, leaves the structures that identifyStructures returns unchanged
C19_DirectionIndependent ==
  (pc = "identified" /\ ~threw) =>
    \A F \in SUBSET (1..Len(elements)) :
      IdentifyStructuresOf(Swapped(F)) = structures

(***************************************************************************)
(* One corridor per elongated room (C20)                                   *)
(***************************************************************************)
IsWide(room) == room.width > 3 * room.height /\ room.height < 120
IsTall(room) == room.height > 3 * room.width /\ room.width < 120
Elongated == {i \in 1..Len(Rooms) : IsWide(Rooms[i]) \/ IsTall(Rooms[i])}

TallCorridor(room) ==
  [x1 |-> room.x + room.width \div 2, y1 |-> room.y,
   x2 |-> room.x + room.width \div 2, y2 |-> room.y + room.height,
   width |-> room.width]

CorridorsFollowRooms ==
  pc \in {"derived", "identified"} =>
    /\ Len(Corridors) = Cardinality(Elongated)
    /\ \A i \in Elongated :
         Corridors[Cardinality({j \in Elongated : j <= i})] =
           (IF IsTall(Rooms[i]) THEN TallCorridor(Rooms[i]) ELSE WideCorridor(Rooms[i]))

RoomsKept == pc = "rooms" => structures'.rooms = structures.rooms

\* C20: corridors holds exactly one entry for each room with width > 3 *
\* height and height < 3, or height > 3 * width and width < 3, none for any
\* other room, in the order of the rooms; a tall room gives a vertical
\* corridor at x = room.x + width / 2 from y to y + height, as wide as the
\* room; and the corridor pass leaves every room in rooms as it was
C20_CorridorsAdditive == [](CorridorsFollowRooms) /\ [][RoomsKept]_vars

\* a tall room and a wide room, with their two corridors in that order
C20_Witness ==
  /\ pc = "derived"
  /\ Rooms = <<[x |-> 40, y |-> 0, width |-> 40, height |-> 200],
               [x |-> 0, y |-> 0, width |-> 360, height |-> 40]>>
  /\ Corridors = <<[x1 |-> 60, y1 |-> 0, x2 |-> 60, y2 |-> 200, width |-> 40],
                   [x1 |-> 0, y1 |-> 20, x2 |-> 360, y2 |-> 20, width |-> 40]>>

(***************************************************************************)
(* App after one upload (C21)                                              *)
(***************************************************************************)
OneUploadOnly == pc = "app" /\ app.uploads = 1 /\ app.file # NoFile

DataOfSelectedFile ==
  /\ app.interpretedData # NoResult
  /\ app.interpretedData.fileName = app.file.name
  /\ app.interpretedData.fileSize = app.file.size

Settled ==
  /\ ~app.isLoading
  /\ DataOfSelectedFile
  /\ ~app.effect
  /\ app.pending = <<>>

\* C21: after one accepted upload and no other user input, App settles: from
\* some point on no interpretFile call is started or pending, isLoading is
\* false and interpretedData is the result for the uploaded file
C21_SettlesAfterOneUpload == <>[]OneUploadOnly => <>[]Settled

(***************************************************************************)
(* A second upload during an interpretation (C22)                          *)
(***************************************************************************)
\* C22: whenever interpretedData is not null it is the result of interpreting
\* the file that App holds, also when a second file was uploaded while the
\* interpretation of the first was pending
C22_DataOfCurrentFile ==
  (pc = "app" /\ app.interpretedData # NoResult) => DataOfSelectedFile

(***************************************************************************)
(* The order of the elements and the number of rooms (C23)                 *)
(***************************************************************************)
\* the orders in which the members of the set S can be listed
RECURSIVE Orders(_)
Orders(S) ==
  IF S = {} THEN {<<>>}
  ELSE UNION {{<<i>> \o o : o \in Orders(S \ {i})} : i \in S}

\* the element lists that hold the elements of the input in another order
Reordered == {[k \in 1..Len(elements) |-> elements[o[k]]] : o \in Orders(1..Len(elements))}

\* C23: identifyStructures returns the same number of rooms for every order
\* of the same line elements
C23_RoomCountOrderIndependent ==
  pc = "identified" =>
    \A elems \in Reordered :
      Len(IdentifyStructuresOf(elems).rooms) = Len(structures.rooms)

(***************************************************************************)
(* The corridors of a StructureSet (C24)                                   *)
(***************************************************************************)
\* |x2 - x1| + |y2 - y1| of a corridor
CorridorLength(c) == Abs(c.x2 - c.x1) + Abs(c.y2 - c.y1)

\* C24: every corridor that identifyStructures returns has a width strictly
\* between 1 and 3 and a length strictly greater than 3 times its width, is
\* axis-aligned, and there are never more corridors than rooms
C24_CorridorShape ==
  pc = "identified" =>
    /\ \A i \in 1..Len(structures.corridors) :
         LET c == structures.corridors[i]
         IN /\ c.width > MinSeparation
            /\ c.width < CorridorMinor
            /\ CorridorLength(c) > 3 * c.width
            /\ (c.x1 = c.x2 \/ c.y1 = c.y2)
    /\ Len(structures.corridors) <= Len(structures.rooms)

\* identifyStructures returned a corridor along the y axis
C24_Witness ==
  /\ pc = "identified"
  /\ ~threw
  /\ Len(structures.corridors) = 1
  /\ structures.corridors[1].x1 = structures.corridors[1].x2
  /\ structures.corridors[1].y1 # structures.corridors[1].y2

====
